---- MODULE Spec2Model ----
(***************************************************************************)
(* Model of the certifications REST service (src/app.py): an APIFlask      *)
(* application over one SQLAlchemy table, CERTIFICATIONS, with paginated   *)
(* read endpoints, a free-text search, record creation and table           *)
(* recreation.                                                             *)
(*                                                                         *)
(* Strings are sequences of one-character strings, so that lower(),        *)
(* str.split() and SQL LIKE are computed character by character.  Dates    *)
(* are day numbers; a nullable date is <<>> (NULL) or <<d>>.               *)
(*                                                                         *)
(* Query.paginate is the Flask-SQLAlchemy 3.x method with its defaults     *)
(* (error_out=True, count=True); the queries carry no ORDER BY, so the     *)
(* store may return the matching rows in any order.  Every request is      *)
(* taken to carry a valid API token.                                       *)
(***************************************************************************)
EXTENDS Integers, Sequences, FiniteSets, TLC

VARIABLES store, today, resp

vars == <<store, today, resp>>

-----------------------------------------------------------------------------
(* Bounds of the model *)

MaxStore == 2

MaxDay == 2

MaxPage == 3

MaxPhraseLen == 3

-----------------------------------------------------------------------------
(* Strings *)

UpperLetters ==
  <<"A", "B", "C", "D", "E", "F", "G", "H", "I", "J", "K", "L", "M",
    "N", "O", "P", "Q", "R", "S", "T", "U", "V", "W", "X", "Y", "Z">>

LowerLetters ==
  <<"a", "b", "c", "d", "e", "f", "g", "h", "i", "j", "k", "l", "m",
    "n", "o", "p", "q", "r", "s", "t", "u", "v", "w", "x", "y", "z">>

\* str.lower() / SQL lower() on one character
LowerChar(c) ==
  IF \E i \in 1..Len(UpperLetters) : UpperLetters[i] = c
  THEN LowerLetters[CHOOSE i \in 1..Len(UpperLetters) : UpperLetters[i] = c]
  ELSE c

\* str.lower() / SQL lower() on a string
Lower(s) == [i \in 1..Len(s) |-> LowerChar(s[i])]

\* the characters str.split() separates on
IsSpace(c) == c \in {" ", "\t", "\n"}

RECURSIVE SplitFrom(_, _, _)
SplitFrom(s, cur, out) ==
  IF s = <<>>
  THEN IF cur = <<>> THEN out ELSE Append(out, cur)
  ELSE IF IsSpace(Head(s))
       THEN SplitFrom(Tail(s), <<>>, IF cur = <<>> THEN out ELSE Append(out, cur))
       ELSE SplitFrom(Tail(s), Append(cur, Head(s)), out)

\* str.split() without arguments: the maximal runs of non-whitespace
Split(s) == SplitFrom(s, <<>>, <<>>)

\* SQL  value LIKE pattern  (no ESCAPE clause): % is any run, _ any one character
RECURSIVE Like(_, _)
Like(value, pattern) ==
  IF pattern = <<>>
  THEN value = <<>>
  ELSE IF Head(pattern) = "%"
       THEN Like(value, Tail(pattern))
            \/ (value # <<>> /\ Like(Tail(value), pattern))
       ELSE /\ value # <<>>
            /\ (Head(pattern) = "_" \/ Head(pattern) = Head(value))
            /\ Like(Tail(value), Tail(pattern))

\* f'%{word}%'
Wrap(word) == <<"%">> \o word \o <<"%">>

\* column.ilike(pattern): lower(column) LIKE lower(pattern)
ILike(value, pattern) == Like(Lower(value), Lower(pattern))

-----------------------------------------------------------------------------
(* The stop words of the free-text search *)

stop_words ==
  {
    <<"i">>, <<"w", "a", "n", "t">>, <<"t", "o">>, <<"s", "e", "a", "r", "c", "h">>,
    <<"t", "h", "e">>, <<"f", "o", "r">>, <<"a">>, <<"a", "n", "d">>, <<"o", "r">>,
    <<"o", "f">>, <<"l", "e", "t">>, <<"m", "e">>, <<"s", "e", "e">>, <<"t", "h", "a", "t">>,
    <<"n", "e", "e", "d">>, <<"b", "e">>, <<"s", "h", "o", "w", "n">>, <<"i", "s">>,
    <<"a", "m">>, <<"a", "r", "e">>, <<"w", "a", "s">>, <<"w", "e", "r", "e">>,
    <<"b", "e", "e", "n">>, <<"b", "e", "i", "n", "g">>, <<"t", "h", "i", "s">>,
    <<"w", "h", "i", "c", "h">>, <<"w", "h", "o">>, <<"w", "h", "o", "m">>,
    <<"w", "h", "a", "t">>, <<"w", "h", "e", "r", "e">>, <<"w", "h", "e", "n">>,
    <<"w", "h", "y">>, <<"h", "o", "w">>, <<"c", "a", "n">>, <<"c", "o", "u", "l", "d">>,
    <<"s", "h", "o", "u", "l", "d">>, <<"w", "o", "u", "l", "d">>, <<"m", "a", "y">>,
    <<"m", "i", "g", "h", "t">>, <<"m", "u", "s", "t">>, <<"h", "a", "s">>,
    <<"h", "a", "v", "e">>, <<"h", "a", "d">>, <<"d", "o">>, <<"d", "o", "e", "s">>,
    <<"d", "i", "d">>, <<"j", "u", "s", "t">>, <<"o", "n", "l", "y">>, <<"t", "h", "e", "n">>,
    <<"t", "h", "a", "n">>, <<"s", "o">>, <<"i", "f">>, <<"n", "o", "t">>, <<"b", "u", "t">>,
    <<"m", "o", "r", "e">>, <<"s", "o", "m", "e">>, <<"a", "l", "l">>, <<"a", "n", "y">>,
    <<"e", "a", "c", "h">>, <<"f", "e", "w">>, <<"m", "o", "s", "t">>, <<"s", "a", "m", "e">>,
    <<"o", "t", "h", "e", "r">>, <<"s", "u", "c", "h">>, <<"n", "o">>, <<"y", "e", "s">>,
    <<"n", "o", "w">>, <<"a", "b", "o", "u", "t">>, <<"a", "b", "o", "v", "e">>,
    <<"a", "f", "t", "e", "r">>, <<"a", "g", "a", "i", "n">>,
    <<"a", "g", "a", "i", "n", "s", "t">>, <<"a", "l", "o", "n", "g">>, <<"a", "l", "s", "o">>,
    <<"a", "m", "o", "n", "g">>, <<"a", "r", "o", "u", "n", "d">>, <<"a", "t">>,
    <<"b", "e", "f", "o", "r", "e">>, <<"b", "e", "t", "w", "e", "e", "n">>, <<"b", "y">>,
    <<"d", "u", "r", "i", "n", "g">>, <<"e", "x", "c", "e", "p", "t">>, <<"f", "r", "o", "m">>,
    <<"i", "n">>, <<"i", "n", "s", "i", "d", "e">>, <<"i", "n", "t", "o">>,
    <<"l", "i", "k", "e">>, <<"n", "e", "a", "r">>, <<"n", "e", "x", "t">>, <<"o", "f", "f">>,
    <<"o", "n">>, <<"o", "n", "t", "o">>, <<"o", "u", "t">>, <<"o", "v", "e", "r">>,
    <<"p", "a", "s", "t">>, <<"s", "i", "n", "c", "e">>, <<"t", "h", "r", "o", "u", "g", "h">>,
    <<"t", "o", "w", "a", "r", "d">>, <<"u", "n", "d", "e", "r">>, <<"u", "n", "t", "i", "l">>,
    <<"u", "p">>, <<"w", "i", "t", "h">>, <<"w", "i", "t", "h", "o", "u", "t">>
  }

-----------------------------------------------------------------------------
(* Values *)

\* a nullable DATE column: <<>> is NULL, <<d>> the day d
Null == <<>>

\* a raw query-string parameter: absent, an integer, or text that is no integer
Absent == [kind |-> "absent", val |-> 0]

IntArg(n) == [kind |-> "int", val |-> n]

TextArg == [kind |-> "text", val |-> 0]

Range(s) == {s[i] : i \in 1..Len(s)}

\* sample_certs: the records inserted after table recreation
sample_certs ==
  << [employeename |->
        <<"P", "a", "t", "r", "i", "c", "k", " ", "D", "l", "a", "m", "i", "n", "i">>,
      certificatetype |-> <<"M", "i", "c", "r", "o", "s", "o", "f", "t">>,
      certificatedescription |->
        <<"A", "z", "u", "r", "e", " ", "f", "u", "n", "d", "a", "m", "e", "n",
          "t", "a", "l", "s", ":", " ", "A", "Z", "-", "9", "0", "0">>,
      certificatelink |-> "https://learn.microsoft.com/en-us/credentials/certifications/azure-fundamentals/",
      expirydate |-> <<1>>] >>

\* CertModel: a row of table CERTIFICATIONS
CertModel(id, data) ==
  [id |-> id,
   employeename |-> data.employeename,
   certificatetype |-> data.certificatetype,
   certificatedescription |-> data.certificatedescription,
   certificatelink |-> data.certificatelink,
   expirydate |-> data.expirydate]

-----------------------------------------------------------------------------
(* Request inputs *)

\* bodies posted to create_record (CertInSchema); expirydate may be left out
InputRecords ==
  { [employeename |-> <<"A", "l">>, certificatetype |-> <<"M", "S">>,
     certificatedescription |-> <<"a", "z", "-", "9">>,
     certificatelink |-> "https://example.org/c1", expirydate |-> Null],
    [employeename |-> <<"a", "l">>, certificatetype |-> <<"z", "t">>,
     certificatedescription |-> <<"t", "_", "a">>,
     certificatelink |-> "https://example.org/c2", expirydate |-> <<1>>],
    [employeename |-> <<"B", "o">>, certificatetype |-> <<"m", "s">>,
     certificatedescription |-> <<"A", "l">>,
     certificatelink |-> "https://example.org/c3", expirydate |-> <<2>>] }

PageArgs == {Absent, TextArg} \cup {IntArg(n) : n \in 0..MaxPage}

PerPageArgs == {Absent, TextArg} \cup {IntArg(n) : n \in {-1, 0, 1, 2, 300, 301}}

Names == { <<"a", "l">>, <<"B", "o">> }

Keywords == { <<"a", "l">>, <<"m", "s">> }

CertTypes == { <<"M", "S">>, <<"z", "t">> }

Phrases ==
  { <<"t", "h", "e", " ", "o", "f", " ", "t", "o">>,
    <<"m", "s", " ", "a", "l">>,
    <<"t">>,
    <<" ">> }

\* The wider inputs of the filter specification (SpecFilter)

NamesRich ==
  {
    <<"a", "l">>, <<"A", "l">>, <<"A", "L">>, <<"a", "L">>, <<"a">>, <<"b", "o">>,
    <<"B", "o">>,
    <<"P", "a", "t", "r", "i", "c", "k", " ", "D", "l", "a", "m", "i", "n", "i">>,
    <<"p", "a", "t", "r", "i", "c", "k", " ", "d", "l", "a", "m", "i", "n", "i">>
  }

KeywordsRich ==
  {
    <<"a", "l">>, <<"A", "L">>, <<"a", "z">>, <<"Z", "-">>, <<"m", "s">>, <<"M">>,
    <<"z", "t">>, <<"9">>, <<"b", "o">>, <<"t", "_", "a">>, <<"z", "_", "9">>, <<"_">>,
    <<"%">>, <<"a", "%", "9">>, <<"a", "z", "u", "r", "e">>, <<"A", "Z", "-", "9", "0", "0">>
  }

CertTypesRich ==
  {
    <<"M", "S">>, <<"m", "s">>, <<"z", "t">>, <<"M", "i", "c", "r", "o", "s", "o", "f", "t">>,
    <<"m", "i", "c", "r", "o", "s", "o", "f", "t">>
  }

PhraseChars == {"a", "t", "T", " ", "%"}

\* the non-empty strings over A of length at most n
StringsUpTo(A, n) == UNION {[1..k -> A] : k \in 1..n}

NamedPhrases ==
  {
    <<"I", " ", "w", "a", "n", "t", " ", "t", "o", " ", "s", "e", "a", "r", "c", "h", " ", "f", "o", "r", " ", "A", "z", "u", "r", "e">>,
    <<"t", "h", "e", " ", "o", "f", " ", "t", "o">>, <<"m", "s", " ", "a", "l">>,
    <<"A", "l", " ", " ", "M", "S">>, <<"z", "_", "9">>,
    <<"A", "z", "u", "r", "e", " ", "A", "Z", "-", "9", "0", "0", " ", "p", "a", "t", "r", "i", "c", "k">>,
    <<" ", "	", " ">>
  }

PhrasesRich == StringsUpTo(PhraseChars, MaxPhraseLen) \cup NamedPhrases

-----------------------------------------------------------------------------
(* Input validation *)

DefaultPage == 1

DefaultPerPage == 20

MaxPerPage == 300

\* CertQuerySchema: page = Integer(load_default=1),
\* per_page = Integer(load_default=20, validate=Range(max=300))
CertQuerySchema(raw_page, raw_per_page) ==
  [valid |-> /\ raw_page.kind # "text"
             /\ raw_per_page.kind # "text"
             /\ (raw_per_page.kind = "int" => raw_per_page.val <= MaxPerPage),
   page |-> IF raw_page.kind = "int" THEN raw_page.val ELSE DefaultPage,
   per_page |-> IF raw_per_page.kind = "int" THEN raw_per_page.val ELSE DefaultPerPage]

-----------------------------------------------------------------------------
(* The filters of the read endpoints, as predicates on a row *)

nodate_query(r) == r.expirydate = Null

\* a comparison with NULL is not true in SQL
invalid_query(r, current_date) ==
  r.expirydate # Null /\ r.expirydate[1] < current_date

\* valid_query with >= for >
valid_query_or_today(r, current_date) ==
  r.expirydate # Null /\ r.expirydate[1] >= current_date

valid_query(r, current_date) ==
  r.expirydate # Null /\ r.expirydate[1] > current_date

\* SearchWords testing the piece as typed against the stop words
SearchWords_case(query_text) ==
  LET words == Split(query_text)
      kept == SelectSeq(words, LAMBDA w : w \notin stop_words)
  IN  [i \in 1..Len(kept) |-> Lower(kept[i])]

\* search_words: the lowercased pieces of the phrase that are no stop words
SearchWords(query_text) ==
  LET words == Split(query_text)
      lowered == [i \in 1..Len(words) |-> Lower(words[i])]
  IN  SelectSeq(lowered, LAMBDA w : w \notin stop_words)

\* NoSearchWords without the early return
NoSearchWords_never(search_words) == FALSE

\* if not search_words
NoSearchWords(search_words) == search_words = <<>>

nlp_query(r, search_words) ==
  \A i \in 1..Len(search_words) :
    \/ Like(Lower(r.employeename), Wrap(search_words[i]))
    \/ Like(Lower(r.certificatetype), Wrap(search_words[i]))
    \/ Like(Lower(r.certificatedescription), Wrap(search_words[i]))

name_query(r, employeename) == r.employeename = employeename

keyword_query(r, tkeyword) ==
  \/ ILike(r.certificatedescription, Wrap(tkeyword))
  \/ ILike(r.certificatetype, Wrap(tkeyword))

certtype_query(r, tcerttype) == r.certificatetype = tcerttype

valid_by_name_query(r, employeename, current_date) ==
  /\ Lower(r.employeename) = Lower(employeename)
  /\ r.expirydate # Null /\ r.expirydate[1] > current_date

invalid_by_name_query(r, employeename, current_date) ==
  /\ Lower(r.employeename) = Lower(employeename)
  /\ r.expirydate # Null /\ r.expirydate[1] < current_date

nodate_by_name_query(r, employeename) ==
  /\ Lower(r.employeename) = Lower(employeename)
  /\ r.expirydate = Null

name_and_keyword_query(r, employeename, tkeyword) ==
  /\ Lower(r.employeename) = Lower(employeename)
  /\ \/ ILike(r.certificatedescription, Wrap(tkeyword))
     \/ ILike(r.certificatetype, Wrap(tkeyword))

-----------------------------------------------------------------------------
(* The store's answer to a query, and Query.paginate *)

\* the rows of table CERTIFICATIONS
Table == Range(store)

\* a SELECT without ORDER BY returns the selected rows in some order
RowOrders(S) ==
  {f \in [1..Cardinality(S) -> S] : \A i, j \in 1..Cardinality(S) : f[i] = f[j] => i = j}

\* .limit(per_page).offset((page - 1) * per_page)
Window(rows, offset, limit) ==
  IF offset >= Len(rows)
  THEN <<>>
  ELSE SubSeq(rows, offset + 1, IF offset + limit < Len(rows) THEN offset + limit ELSE Len(rows))

\* Query.paginate(page, per_page): 404 for page < 1, per_page < 1, and for an
\* empty window on a page other than 1; queries counts the SQL statements run
Paginate(rows, page, per_page) ==
  IF page < 1 \/ per_page < 1
  THEN [status |-> 404, queries |-> 0, page |-> page, per_page |-> per_page,
        items |-> <<>>, total |-> 0]
  ELSE LET items == Window(rows, (page - 1) * per_page, per_page)
       IN  IF items = <<>> /\ page # 1
           THEN [status |-> 404, queries |-> 1, page |-> page, per_page |-> per_page,
                 items |-> <<>>, total |-> 0]
           ELSE [status |-> 200, queries |-> 2, page |-> page, per_page |-> per_page,
                 items |-> items, total |-> Len(rows)]

\* Pagination.pages
Pages(pagination) ==
  IF pagination.total = 0
  THEN 0
  ELSE (pagination.total + pagination.per_page - 1) \div pagination.per_page

NoPagination ==
  [page |-> 0, per_page |-> 0, pages |-> 0, total |-> 0,
   has_prev |-> FALSE, has_next |-> FALSE]

\* apiflask.pagination_builder(pagination)
PaginationBuilder(pagination) ==
  [page |-> pagination.page,
   per_page |-> pagination.per_page,
   pages |-> Pages(pagination),
   total |-> pagination.total,
   has_prev |-> pagination.page > 1,
   has_next |-> pagination.page < Pages(pagination)]

\* PaginationInfo with the page count rounded down
PaginationInfo_floor(pagination) ==
  [page |-> pagination.page,
   per_page |-> pagination.per_page,
   pages |-> pagination.total \div pagination.per_page,
   total |-> pagination.total,
   has_prev |-> pagination.page > 1,
   has_next |-> pagination.page < pagination.total \div pagination.per_page]

\* pagination_info = {...} of the handlers that build their own links
PaginationInfo(pagination) ==
  [page |-> pagination.page,
   per_page |-> pagination.per_page,
   pages |-> Pages(pagination),
   total |-> pagination.total,
   has_prev |-> pagination.page > 1,
   has_next |-> pagination.page < Pages(pagination)]

-----------------------------------------------------------------------------
(* Responses *)

Message(text, params) == [text |-> text, params |-> params]

\* a page reference: url_for(endpoint, <path parameters>, page=, per_page=)
NoLink ==
  [present |-> FALSE, endpoint |-> "",
   employeename |-> <<>>, tkeyword |-> <<>>, tcerttype |-> <<>>, query_text |-> <<>>,
   page |-> 0, per_page |-> 0]

NoLinks ==
  [current |-> NoLink, first |-> NoLink, last |-> NoLink, prev |-> NoLink, next |-> NoLink]

\* no request body
NoData ==
  [employeename |-> <<>>, certificatetype |-> <<>>, certificatedescription |-> <<>>,
   certificatelink |-> "", expirydate |-> Null]

\* no request is being answered
NoResp ==
  [endpoint |-> "none", status |-> 0,
   employeename |-> <<>>, tkeyword |-> <<>>, tcerttype |-> <<>>, query_text |-> <<>>,
   raw_page |-> Absent, raw_per_page |-> Absent,
   paginated |-> FALSE, pg_page |-> 0, pg_per_page |-> 0, queries |-> 0,
   certs |-> <<>>, has_pagination |-> FALSE, pagination |-> NoPagination,
   links |-> NoLinks, submitted |-> NoData, confirmation |-> "none",
   phase |-> "none",
   search_terms |-> <<>>, message |-> Message("", <<>>)]

Request(endpoint, raw_page, raw_per_page) ==
  [NoResp EXCEPT !.endpoint = endpoint, !.raw_page = raw_page, !.raw_per_page = raw_per_page]

\* the input schema refuses the query string: the handler body does not run
ValidationError(req) == [req EXCEPT !.status = 422]

\* get_page_url naming the handler it was copied from
get_page_url_copied(req, page) ==
  [present |-> TRUE, endpoint |-> "name",
   employeename |-> req.employeename, tkeyword |-> req.tkeyword,
   tcerttype |-> req.tcerttype, query_text |-> req.query_text,
   page |-> page, per_page |-> req.pg_per_page]

\* get_page_url(page) of the handler answering req
get_page_url(req, page) ==
  [present |-> TRUE, endpoint |-> req.endpoint,
   employeename |-> req.employeename, tkeyword |-> req.tkeyword,
   tcerttype |-> req.tcerttype, query_text |-> req.query_text,
   page |-> page, per_page |-> req.pg_per_page]

\* pagination_builder's get_page_url: request.endpoint, pagination.per_page
builder_page_url(req, pagination, page) ==
  [present |-> TRUE, endpoint |-> req.endpoint,
   employeename |-> <<>>, tkeyword |-> <<>>, tcerttype |-> <<>>, query_text |-> <<>>,
   page |-> page, per_page |-> pagination.per_page]

\* 'current', 'first', 'last', 'prev', 'next' of pagination_info
PageLinks(req, pagination) ==
  [current |-> get_page_url(req, pagination.page),
   first |-> get_page_url(req, 1),
   last |-> get_page_url(req, Pages(pagination)),
   prev |-> IF pagination.page > 1 THEN get_page_url(req, pagination.page - 1) ELSE NoLink,
   next |-> IF pagination.page < Pages(pagination)
            THEN get_page_url(req, pagination.page + 1) ELSE NoLink]

\* the same entries of apiflask.pagination_builder(pagination)
BuilderLinks(req, pagination) ==
  [current |-> builder_page_url(req, pagination, pagination.page),
   first |-> builder_page_url(req, pagination, 1),
   last |-> builder_page_url(req, pagination, Pages(pagination)),
   prev |-> IF pagination.page > 1
            THEN builder_page_url(req, pagination, pagination.page - 1) ELSE NoLink,
   next |-> IF pagination.page < Pages(pagination)
            THEN builder_page_url(req, pagination, pagination.page + 1) ELSE NoLink]

\* the handler body from .paginate(...) to jsonify(...); own_links tells the
\* handlers with a pagination_info of their own from those using pagination_builder
Paged(req, query, rows, own_links, search_terms, message) ==
  LET pagination == Paginate(rows, query.page, query.per_page)
      called == [req EXCEPT !.paginated = TRUE, !.pg_page = query.page,
                            !.pg_per_page = query.per_page,
                            !.queries = pagination.queries]
  IN  IF pagination.status = 404
      THEN [called EXCEPT !.status = 404]
      ELSE [called EXCEPT !.status = 200,
                          !.certs = pagination.items,
                          !.has_pagination = TRUE,
                          !.pagination = IF own_links THEN PaginationInfo(pagination)
                                         ELSE PaginationBuilder(pagination),
                          !.links = IF own_links THEN PageLinks(called, pagination)
                                    ELSE BuilderLinks(called, pagination),
                          !.search_terms = search_terms,
                          !.message = message]

\* a read handler behind @app.input(CertQuerySchema, 'query')
Answer(req, S, own_links, message) ==
  LET query == CertQuerySchema(req.raw_page, req.raw_per_page)
  IN  /\ resp = NoResp
      /\ IF ~query.valid
         THEN resp' = ValidationError(req)
         ELSE \E rows \in RowOrders(S) :
                resp' = Paged(req, query, rows, own_links, <<>>, message)
      /\ UNCHANGED <<store, today>>

\* the "message" string each handler puts in its answer
VariantMessage(endpoint, employeename, tkeyword, query_text) ==
  CASE endpoint = "nodate" -> Message("Certification data retrieved successfully", <<>>)
    [] endpoint = "invalid" -> Message("inValid certification data retrieved successfully", <<>>)
    [] endpoint = "valid" -> Message("Valid certification data retrieved successfully", <<>>)
    [] endpoint = "nlp" -> Message("Search results for: ", <<query_text>>)
    [] endpoint = "name" -> Message("Certification data retrieved successfully", <<>>)
    [] endpoint = "keyword" ->
         Message("Certification data retrieved successfully by keyword", <<>>)
    [] endpoint = "certtype" -> Message("Certification data retrieved successfully", <<>>)
    [] endpoint = "name_valid" ->
         Message("Valid certification data retrieved successfully for ", <<employeename>>)
    [] endpoint = "name_invalid" ->
         Message("Valid certification data retrieved successfully for ", <<employeename>>)
    [] endpoint = "name_nodate" ->
         Message("Valid certification data retrieved successfully for ", <<employeename>>)
    [] endpoint = "name_keyword" ->
         Message("Valid certification data retrieved successfully for ",
                 <<employeename, <<" ", "a", "n", "d", " ">>, tkeyword>>)

-----------------------------------------------------------------------------
(* The handlers *)

get_nodate_certs(raw_page, raw_per_page) ==
  Answer(Request("nodate", raw_page, raw_per_page),
         {r \in Table : nodate_query(r)}, FALSE,
         VariantMessage("nodate", <<>>, <<>>, <<>>))

get_invalid_certs(raw_page, raw_per_page) ==
  Answer(Request("invalid", raw_page, raw_per_page),
         {r \in Table : invalid_query(r, today)}, FALSE,
         VariantMessage("invalid", <<>>, <<>>, <<>>))

get_valid_certs(raw_page, raw_per_page) ==
  Answer(Request("valid", raw_page, raw_per_page),
         {r \in Table : valid_query(r, today)}, FALSE,
         VariantMessage("valid", <<>>, <<>>, <<>>))

search_certifications_nlp(query_text, raw_page, raw_per_page) ==
  LET req == [Request("nlp", raw_page, raw_per_page) EXCEPT !.query_text = query_text]
      query == CertQuerySchema(raw_page, raw_per_page)
      search_words == SearchWords(query_text)
  IN  /\ resp = NoResp
      /\ IF ~query.valid
         THEN resp' = ValidationError(req)
         ELSE IF NoSearchWords(search_words)
              THEN resp' = [req EXCEPT
                              !.status = 200,
                              !.message = Message("No valid search terms found after removing common words", <<>>)]
              ELSE \E rows \in RowOrders({r \in Table : nlp_query(r, search_words)}) :
                     resp' = Paged(req, query, rows, TRUE, search_words,
                                   VariantMessage("nlp", <<>>, <<>>, query_text))
      /\ UNCHANGED <<store, today>>

get_certs_by_name(employeename, raw_page, raw_per_page) ==
  Answer([Request("name", raw_page, raw_per_page) EXCEPT !.employeename = employeename],
         {r \in Table : name_query(r, employeename)}, TRUE,
         VariantMessage("name", employeename, <<>>, <<>>))

get_certs_by_keyword(tkeyword, raw_page, raw_per_page) ==
  Answer([Request("keyword", raw_page, raw_per_page) EXCEPT !.tkeyword = tkeyword],
         {r \in Table : keyword_query(r, tkeyword)}, TRUE,
         VariantMessage("keyword", <<>>, tkeyword, <<>>))

get_certs_by_certtype(tcerttype, raw_page, raw_per_page) ==
  Answer([Request("certtype", raw_page, raw_per_page) EXCEPT !.tcerttype = tcerttype],
         {r \in Table : certtype_query(r, tcerttype)}, TRUE,
         VariantMessage("certtype", <<>>, <<>>, <<>>))

get_valid_certs_by_name(employeename, raw_page, raw_per_page) ==
  Answer([Request("name_valid", raw_page, raw_per_page) EXCEPT !.employeename = employeename],
         {r \in Table : valid_by_name_query(r, employeename, today)}, TRUE,
         VariantMessage("name_valid", employeename, <<>>, <<>>))

get_invalid_certs_by_name(employeename, raw_page, raw_per_page) ==
  Answer([Request("name_invalid", raw_page, raw_per_page) EXCEPT !.employeename = employeename],
         {r \in Table : invalid_by_name_query(r, employeename, today)}, TRUE,
         VariantMessage("name_invalid", employeename, <<>>, <<>>))

get_nodate_certs_by_name(employeename, raw_page, raw_per_page) ==
  Answer([Request("name_nodate", raw_page, raw_per_page) EXCEPT !.employeename = employeename],
         {r \in Table : nodate_by_name_query(r, employeename)}, TRUE,
         VariantMessage("name_nodate", employeename, <<>>, <<>>))

get_certs_by_name_and_keyword(employeename, tkeyword, raw_page, raw_per_page) ==
  Answer([Request("name_keyword", raw_page, raw_per_page) EXCEPT
            !.employeename = employeename, !.tkeyword = tkeyword],
         {r \in Table : name_and_keyword_query(r, employeename, tkeyword)}, TRUE,
         VariantMessage("name_keyword", employeename, tkeyword, <<>>))

\* the table as create_database leaves it
SampleTable == [i \in 1..Len(sample_certs) |-> CertModel(i, sample_certs[i])]

\* create_database taking a request without the parameter as confirmed
create_database_unconfirmed(confirmation) ==
  /\ resp = NoResp
  /\ IF confirmation # "false"
     THEN /\ store' = [i \in 1..Len(sample_certs) |-> CertModel(i, sample_certs[i])]
          /\ resp' = [NoResp EXCEPT !.endpoint = "recreate", !.status = 200,
                                    !.queries = 1, !.confirmation = confirmation,
                                    !.message = Message("database recreated", <<>>)]
     ELSE /\ store' = store
          /\ resp' = [NoResp EXCEPT !.endpoint = "recreate", !.status = 400,
                                    !.confirmation = confirmation,
                                    !.message = Message("confirmation is missing", <<>>)]
  /\ UNCHANGED today

\* POST /database/recreate; confirmation = Boolean(load_default=False)
create_database(confirmation) ==
  /\ resp = NoResp
  /\ IF confirmation = "true"
     THEN /\ store' = [i \in 1..Len(sample_certs) |-> CertModel(i, sample_certs[i])]
          /\ resp' = [NoResp EXCEPT !.endpoint = "recreate", !.status = 200,
                                    !.queries = 1, !.confirmation = confirmation,
                                    !.message = Message("database recreated", <<>>)]
     ELSE /\ store' = store
          /\ resp' = [NoResp EXCEPT !.endpoint = "recreate", !.status = 400,
                                    !.confirmation = confirmation,
                                    !.message = Message("confirmation is missing", <<>>)]
  /\ UNCHANGED today

\* the response is sent; the next request can be taken
Deliver ==
  /\ resp # NoResp
  /\ resp.phase = "none"
  /\ resp' = NoResp
  /\ UNCHANGED <<store, today>>

\* the calendar date of datetime.now() advances
Tick ==
  /\ resp = NoResp
  /\ today < MaxDay
  /\ today' = today + 1
  /\ UNCHANGED <<store, resp>>

\* create_record giving every row the same identifier
create_record_same_id(data) ==
  /\ resp = NoResp
  /\ Len(store) < MaxStore
  /\ LET cert == CertModel(1, data)
     IN  /\ store' = Append(store, cert)
         /\ resp' = [NoResp EXCEPT !.endpoint = "create", !.status = 201,
                                   !.queries = 1, !.certs = <<cert>>,
                                   !.submitted = data]
  /\ UNCHANGED today

\* the identifier is assigned by the store: the next value of the ID column
create_record(data) ==
  /\ resp = NoResp
  /\ Len(store) < MaxStore
  /\ LET cert == CertModel(Len(store) + 1, data)
     IN  /\ store' = Append(store, cert)
         /\ resp' = [NoResp EXCEPT !.endpoint = "create", !.status = 201,
                                   !.queries = 1, !.certs = <<cert>>,
                                   !.submitted = data]
  /\ UNCHANGED today

-----------------------------------------------------------------------------

Init ==
  /\ store = <<>>
  /\ today = 1
  /\ resp = NoResp

Next ==
  \/ \E p \in PageArgs, pp \in PerPageArgs : get_nodate_certs(p, pp)
  \/ \E p \in PageArgs, pp \in PerPageArgs : get_invalid_certs(p, pp)
  \/ \E p \in PageArgs, pp \in PerPageArgs : get_valid_certs(p, pp)
  \/ \E t \in Phrases, p \in PageArgs, pp \in PerPageArgs :
       search_certifications_nlp(t, p, pp)
  \/ \E n \in Names, p \in PageArgs, pp \in PerPageArgs : get_certs_by_name(n, p, pp)
  \/ \E k \in Keywords, p \in PageArgs, pp \in PerPageArgs : get_certs_by_keyword(k, p, pp)
  \/ \E t \in CertTypes, p \in PageArgs, pp \in PerPageArgs : get_certs_by_certtype(t, p, pp)
  \/ \E n \in Names, p \in PageArgs, pp \in PerPageArgs : get_valid_certs_by_name(n, p, pp)
  \/ \E n \in Names, p \in PageArgs, pp \in PerPageArgs : get_invalid_certs_by_name(n, p, pp)
  \/ \E n \in Names, p \in PageArgs, pp \in PerPageArgs : get_nodate_certs_by_name(n, p, pp)
  \/ \E n \in Names, k \in Keywords, p \in PageArgs, pp \in PerPageArgs :
       get_certs_by_name_and_keyword(n, k, p, pp)
  \/ \E data \in InputRecords : create_record(data)
  \/ \E c \in {"absent", "true", "false"} : create_database(c)
  \/ Deliver
  \/ Tick

Spec == Init /\ [][Next]_vars

\* the same handlers with the default pagination and the wider filter inputs
NextFilter ==
  \/ get_nodate_certs(Absent, Absent)
  \/ get_invalid_certs(Absent, Absent)
  \/ get_valid_certs(Absent, Absent)
  \/ \E t \in PhrasesRich : search_certifications_nlp(t, Absent, Absent)
  \/ \E n \in NamesRich : get_certs_by_name(n, Absent, Absent)
  \/ \E k \in KeywordsRich : get_certs_by_keyword(k, Absent, Absent)
  \/ \E t \in CertTypesRich : get_certs_by_certtype(t, Absent, Absent)
  \/ \E n \in NamesRich : get_valid_certs_by_name(n, Absent, Absent)
  \/ \E n \in NamesRich : get_invalid_certs_by_name(n, Absent, Absent)
  \/ \E n \in NamesRich : get_nodate_certs_by_name(n, Absent, Absent)
  \/ \E n \in NamesRich, k \in KeywordsRich :
       get_certs_by_name_and_keyword(n, k, Absent, Absent)
  \/ \E data \in InputRecords : create_record(data)
  \/ \E c \in {"absent", "true", "false"} : create_database(c)
  \/ Deliver
  \/ Tick

SpecFilter == Init /\ [][NextFilter]_vars

-----------------------------------------------------------------------------
(* A read request whose two SQL statements are separate steps, with the     *)
(* commits of requests served by other workers in between                   *)

\* get_certs_by_keyword up to the first statement of paginate: the window
get_certs_by_keyword_items(tkeyword, raw_page, raw_per_page) ==
  LET req == [Request("keyword", raw_page, raw_per_page) EXCEPT !.tkeyword = tkeyword]
      query == CertQuerySchema(raw_page, raw_per_page)
  IN  /\ resp = NoResp
      /\ IF ~query.valid
         THEN resp' = ValidationError(req)
         ELSE \E rows \in RowOrders({r \in Table : keyword_query(r, tkeyword)}) :
                LET first == Paginate(rows, query.page, query.per_page)
                    called == [req EXCEPT !.paginated = TRUE, !.pg_page = query.page,
                                          !.pg_per_page = query.per_page]
                IN  IF first.status = 404
                    THEN resp' = [called EXCEPT !.status = 404,
                                                !.queries = first.queries]
                    ELSE resp' = [called EXCEPT !.certs = first.items,
                                                !.queries = 1,
                                                !.phase = "count"]
      /\ UNCHANGED <<store, today>>

\* the rest of get_certs_by_keyword: the count statement, then the answer
get_certs_by_keyword_count ==
  /\ resp.phase = "count"
  /\ LET total == Cardinality({r \in Table : keyword_query(r, resp.tkeyword)})
         pagination == [status |-> 200, queries |-> 2, page |-> resp.pg_page,
                        per_page |-> resp.pg_per_page, items |-> resp.certs,
                        total |-> total]
     IN  resp' = [resp EXCEPT
                    !.phase = "none",
                    !.status = 200,
                    !.queries = 2,
                    !.has_pagination = TRUE,
                    !.pagination = PaginationInfo(pagination),
                    !.links = PageLinks(resp, pagination),
                    !.message = VariantMessage("keyword", <<>>, resp.tkeyword, <<>>)]
  /\ UNCHANGED <<store, today>>

\* the commit of create_record in a request served by another worker
create_record_commit(data) ==
  /\ Len(store) < MaxStore
  /\ store' = Append(store, CertModel(Len(store) + 1, data))
  /\ UNCHANGED <<today, resp>>

\* the commit of a confirmed create_database in a request served by another worker
create_database_commit ==
  /\ store # SampleTable
  /\ store' = SampleTable
  /\ UNCHANGED <<today, resp>>

NextConcurrent ==
  \/ \E k \in Keywords, p \in PageArgs, pp \in PerPageArgs :
       get_certs_by_keyword_items(k, p, pp)
  \/ get_certs_by_keyword_count
  \/ \E data \in InputRecords : create_record_commit(data)
  \/ create_database_commit
  \/ Deliver

SpecConcurrent == Init /\ [][NextConcurrent]_vars

-----------------------------------------------------------------------------
(* Routing: the GET rules of app.url_map and the rule a request path is     *)
(* matched to.  A path is the sequence of its segments between the slashes. *)

seg_certifications == <<"c", "e", "r", "t", "i", "f", "i", "c", "a", "t", "i", "o", "n", "s">>
seg_nodate == <<"n", "o", "d", "a", "t", "e">>
seg_invalid == <<"i", "n", "v", "a", "l", "i", "d">>
seg_valid == <<"v", "a", "l", "i", "d">>
seg_nlp == <<"n", "l", "p">>
seg_name == <<"n", "a", "m", "e">>
seg_keyword == <<"k", "e", "y", "w", "o", "r", "d">>
seg_certtype == <<"c", "e", "r", "t", "t", "y", "p", "e">>

\* a literal segment of a rule
Static(text) == [static |-> TRUE, text |-> text, arg |-> ""]

\* <string:arg>: one segment of at least one character
Converter(arg) == [static |-> FALSE, text |-> <<>>, arg |-> arg]

Rule(endpoint, parts) == [endpoint |-> endpoint, parts |-> parts]

\* the rules in the order of registration
url_map ==
  << Rule("nodate", <<Static(seg_certifications), Static(seg_nodate)>>),
     Rule("invalid", <<Static(seg_certifications), Static(seg_invalid)>>),
     Rule("valid", <<Static(seg_certifications), Static(seg_valid)>>),
     Rule("nlp", <<Static(seg_certifications), Static(seg_nlp), Converter("query_text")>>),
     Rule("name", <<Static(seg_certifications), Static(seg_name),
                    Converter("employeename")>>),
     Rule("keyword", <<Static(seg_certifications), Static(seg_keyword),
                       Converter("tkeyword")>>),
     Rule("certtype", <<Static(seg_certifications), Static(seg_certtype),
                        Converter("tcerttype")>>),
     Rule("name_valid", <<Static(seg_certifications), Static(seg_name),
                          Converter("employeename"), Static(seg_valid)>>),
     Rule("name_invalid", <<Static(seg_certifications), Static(seg_name),
                            Converter("employeename"), Static(seg_invalid)>>),
     Rule("name_nodate", <<Static(seg_certifications), Static(seg_name),
                           Converter("employeename"), Static(seg_nodate)>>),
     Rule("name_keyword", <<Static(seg_certifications), Static(seg_name),
                            Converter("employeename"), Converter("tkeyword")>>) >>

\* the deepest rule has four segments
RouteDepth == 4

\* the rule accepts the path
RuleMatches(rule, path) ==
  /\ Len(rule.parts) = Len(path)
  /\ \A k \in 1..Len(path) :
       IF rule.parts[k].static
       THEN path[k] = rule.parts[k].text
       ELSE path[k] # <<>>

\* the rules, by number, that accept the path
MatchingRules(path) == {i \in 1..Len(url_map) : RuleMatches(url_map[i], path)}

\* the matcher tries the literal branch of a segment before the converter
\* branch: rule i is found before rule j
Outranks(i, j) ==
  \E k \in 1..Len(url_map[i].parts) :
    /\ k <= Len(url_map[j].parts)
    /\ url_map[i].parts[k].static
    /\ ~url_map[j].parts[k].static
    /\ \A h \in 1..(k - 1) : url_map[i].parts[h].static = url_map[j].parts[h].static

\* the accepting rules no other accepting rule is found before
Candidates(path) ==
  LET matching == MatchingRules(path)
  IN  {i \in matching : \A j \in matching : ~Outranks(j, i)}

\* the matcher trying the converter branch before the literal branch
Dispatch_converter_first(path) ==
  LET matching == MatchingRules(path)
  IN  IF matching = {}
      THEN 0
      ELSE CHOOSE i \in matching :
             \A j \in matching \ {i} : Outranks(j, i) \/ (~Outranks(i, j) /\ i < j)

\* MapAdapter.match: the number of the rule the path is dispatched to, 0 for none
Dispatch(path) ==
  LET matching == MatchingRules(path)
  IN  IF matching = {}
      THEN 0
      ELSE CHOOSE i \in matching :
             \A j \in matching \ {i} : Outranks(i, j) \/ (~Outranks(j, i) /\ i < j)

\* the value the path gives to a converter of the rule
PathArg(rule, path, arg) ==
  path[CHOOSE k \in 1..Len(rule.parts) : rule.parts[k].arg = arg]

\* NotFound raised by the matcher
NotFound ==
  /\ resp = NoResp
  /\ resp' = [NoResp EXCEPT !.endpoint = "not_found", !.status = 404]
  /\ UNCHANGED <<store, today>>

\* the view function of rule i is called with the converted segments
view_function(i, path) ==
  CASE i = 0 -> NotFound
    [] i # 0 /\ url_map[i].endpoint = "nodate" -> get_nodate_certs(Absent, Absent)
    [] i # 0 /\ url_map[i].endpoint = "invalid" -> get_invalid_certs(Absent, Absent)
    [] i # 0 /\ url_map[i].endpoint = "valid" -> get_valid_certs(Absent, Absent)
    [] i # 0 /\ url_map[i].endpoint = "nlp" ->
         search_certifications_nlp(PathArg(url_map[i], path, "query_text"), Absent, Absent)
    [] i # 0 /\ url_map[i].endpoint = "name" ->
         get_certs_by_name(PathArg(url_map[i], path, "employeename"), Absent, Absent)
    [] i # 0 /\ url_map[i].endpoint = "keyword" ->
         get_certs_by_keyword(PathArg(url_map[i], path, "tkeyword"), Absent, Absent)
    [] i # 0 /\ url_map[i].endpoint = "certtype" ->
         get_certs_by_certtype(PathArg(url_map[i], path, "tcerttype"), Absent, Absent)
    [] i # 0 /\ url_map[i].endpoint = "name_valid" ->
         get_valid_certs_by_name(PathArg(url_map[i], path, "employeename"), Absent, Absent)
    [] i # 0 /\ url_map[i].endpoint = "name_invalid" ->
         get_invalid_certs_by_name(PathArg(url_map[i], path, "employeename"),
                                   Absent, Absent)
    [] i # 0 /\ url_map[i].endpoint = "name_nodate" ->
         get_nodate_certs_by_name(PathArg(url_map[i], path, "employeename"),
                                  Absent, Absent)
    [] i # 0 /\ url_map[i].endpoint = "name_keyword" ->
         get_certs_by_name_and_keyword(PathArg(url_map[i], path, "employeename"),
                                       PathArg(url_map[i], path, "tkeyword"),
                                       Absent, Absent)

\* Flask.dispatch_request: the path is matched, the view function of the rule runs
dispatch_request(path) ==
  /\ resp = NoResp
  /\ \E i \in {Dispatch(path)} : view_function(i, path)

\* the segments requests are made of
RouteSegments ==
  {seg_certifications, seg_nodate, seg_invalid, seg_valid, seg_nlp, seg_name,
   seg_keyword, seg_certtype, <<"a", "l">>, <<"V", "a", "l", "i", "d">>}

\* the request paths below /certifications, down to the depth of the rules
Paths ==
  {<<seg_certifications>> \o t :
     t \in UNION {[1..n -> RouteSegments] : n \in 1..(RouteDepth - 1)}}

NextRoute ==
  \/ \E path \in Paths : dispatch_request(path)
  \/ \E data \in InputRecords : create_record(data)
  \/ \E c \in {"absent", "true", "false"} : create_database(c)
  \/ Deliver
  \/ Tick

SpecRoute == Init /\ [][NextRoute]_vars

-----------------------------------------------------------------------------
(* What the properties below speak about *)

PagedEndpoints ==
  {"nodate", "invalid", "valid", "nlp", "name", "keyword", "certtype",
   "name_valid", "name_invalid", "name_nodate", "name_keyword"}

NameEndpoints == {"name", "name_valid", "name_invalid", "name_nodate", "name_keyword"}

\* the rows the filter of the answered request selects in the table
RequestRows ==
  CASE resp.endpoint = "nodate" -> {r \in Table : nodate_query(r)}
    [] resp.endpoint = "invalid" -> {r \in Table : invalid_query(r, today)}
    [] resp.endpoint = "valid" -> {r \in Table : valid_query(r, today)}
    [] resp.endpoint = "nlp" -> {r \in Table : nlp_query(r, SearchWords(resp.query_text))}
    [] resp.endpoint = "name" -> {r \in Table : name_query(r, resp.employeename)}
    [] resp.endpoint = "keyword" -> {r \in Table : keyword_query(r, resp.tkeyword)}
    [] resp.endpoint = "certtype" -> {r \in Table : certtype_query(r, resp.tcerttype)}
    [] resp.endpoint = "name_valid" ->
         {r \in Table : valid_by_name_query(r, resp.employeename, today)}
    [] resp.endpoint = "name_invalid" ->
         {r \in Table : invalid_by_name_query(r, resp.employeename, today)}
    [] resp.endpoint = "name_nodate" ->
         {r \in Table : nodate_by_name_query(r, resp.employeename)}
    [] resp.endpoint = "name_keyword" ->
         {r \in Table : name_and_keyword_query(r, resp.employeename, resp.tkeyword)}
    [] OTHER -> {}

\* the records of the answer
CertSet == Range(resp.certs)

\* a paginated answer whose single page holds every match
WholeResult ==
  /\ resp.status = 200
  /\ resp.has_pagination
  /\ resp.pagination.page = 1
  /\ resp.pagination.total <= resp.pagination.per_page

\* ceil(t / p) for p > 0: the least n with n * p >= t
Ceil(t, p) == CHOOSE n \in 0..t : n * p >= t /\ \A m \in 0..t : m * p >= t => n <= m

\* t occurs in s as a run of consecutive characters
Contains(s, t) ==
  \E i \in 0..(Len(s) - Len(t)) : \A k \in 1..Len(t) : s[i + k] = t[k]

-----------------------------------------------------------------------------
(* C1: on every paginated read endpoint, with T > 0 matches, per_page in    *)
(* 1..300 and a requested page beyond the last one, the request does not    *)
(* fail: it answers 200 with no items, total = T, the page count            *)
(* ceil(T / per_page) and no next page.                                     *)
C1_PageBeyondLastAnswersEmpty ==
  LET T == Cardinality(RequestRows)
  IN  ( /\ resp.endpoint \in PagedEndpoints
        /\ resp.paginated
        /\ T > 0
        /\ resp.pg_per_page \in 1..MaxPerPage
        /\ resp.pg_page > Ceil(T, resp.pg_per_page) )
      => /\ resp.status = 200
         /\ resp.certs = <<>>
         /\ resp.pagination.total = T
         /\ resp.pagination.pages = Ceil(T, resp.pg_per_page)
         /\ ~resp.pagination.has_next

(* C2: the input schema refuses every page that is no positive integer and  *)
(* every per_page outside 1..300, so paginate is only reached with          *)
(* page >= 1 and 1 <= per_page <= 300; left out, they are 1 and 20.         *)
C2_PaginateOnlyWithValidatedArgs ==
  /\ resp.paginated =>
       /\ resp.pg_page >= 1
       /\ resp.pg_per_page \in 1..MaxPerPage
       /\ (resp.raw_page = Absent => resp.pg_page = 1)
       /\ (resp.raw_per_page = Absent => resp.pg_per_page = 20)
  /\ ( /\ resp.endpoint \in PagedEndpoints
       /\ \/ resp.raw_page.kind = "text"
          \/ (resp.raw_page.kind = "int" /\ resp.raw_page.val < 1)
          \/ resp.raw_per_page.kind = "text"
          \/ (resp.raw_per_page.kind = "int" /\ resp.raw_per_page.val \notin 1..MaxPerPage) )
     => resp.status = 422

(* C3: on every endpoint that filters by employee name, a row passes the    *)
(* name condition iff lower(row.employeename) = lower(requested name), so   *)
(* the answer holds exactly the rows with that name, compared without       *)
(* regard to case, that also pass the endpoint's other condition.           *)
C3_NameFilterIgnoresCase ==
  (resp.endpoint \in NameEndpoints /\ WholeResult)
  => CertSet =
       {r \in Range(store) :
          /\ Lower(r.employeename) = Lower(resp.employeename)
          /\ CASE resp.endpoint = "name_valid" -> valid_query(r, today)
               [] resp.endpoint = "name_invalid" -> invalid_query(r, today)
               [] resp.endpoint = "name_nodate" -> nodate_query(r)
               [] resp.endpoint = "name_keyword" -> keyword_query(r, resp.tkeyword)
               [] OTHER -> TRUE}

\* the validity bucket an endpoint answers for, "" for the others
BucketOf(endpoint) ==
  CASE endpoint \in {"nodate", "name_nodate"} -> "nodate"
    [] endpoint \in {"invalid", "name_invalid"} -> "invalid"
    [] endpoint \in {"valid", "name_valid"} -> "valid"
    [] OTHER -> ""

\* the rows of a bucket on day d, as the buckets are described
InBucket(r, bucket, d) ==
  CASE bucket = "nodate" -> Len(r.expirydate) = 0
    [] bucket = "invalid" -> Len(r.expirydate) = 1 /\ r.expirydate[1] < d
    [] bucket = "valid" -> Len(r.expirydate) = 1 /\ d < r.expirydate[1]
    [] OTHER -> FALSE

PieceStarts(s) ==
  {i \in 1..Len(s) : ~IsSpace(s[i]) /\ (i = 1 \/ IsSpace(s[i - 1]))}

\* the piece of s that starts at position i
PieceAt(s, i) ==
  LET j == CHOOSE e \in i..Len(s) :
             /\ \A k \in i..e : ~IsSpace(s[k])
             /\ (e = Len(s) \/ IsSpace(s[e + 1]))
  IN  SubSeq(s, i, j)

RECURSIVE Ascending(_)
Ascending(S) ==
  IF S = {}
  THEN <<>>
  ELSE LET m == CHOOSE x \in S : \A y \in S : x <= y
       IN  <<m>> \o Ascending(S \ {m})

\* the pieces of the phrase, lowercased, without the stop words, in their order
ExpectedTokens(phrase) ==
  LET kept == Ascending({i \in PieceStarts(phrase) :
                           Lower(PieceAt(phrase, i)) \notin stop_words})
  IN  [n \in 1..Len(kept) |-> Lower(PieceAt(phrase, kept[n]))]

NoTermsMessage == Message("No valid search terms found after removing common words", <<>>)

\* the answer of the free-text search that has tokens
NlpTokens == resp.endpoint = "nlp" /\ resp.status = 200 /\ resp.has_pagination

(* C5 as amended: the tokens are exactly the whitespace-separated pieces of *)
(* the phrase, lowercased, without the pieces whose lowercase form is a     *)
(* stop word, in their original order; no token is a stop word or has an    *)
(* uppercase letter; a piece that occurs twice is kept twice.               *)
C5_TokensAreTheKeptPieces ==
  /\ NlpTokens =>
       /\ resp.search_terms = ExpectedTokens(resp.query_text)
       /\ \A i \in 1..Len(resp.search_terms) :
            /\ resp.search_terms[i] \notin stop_words
            /\ \A k \in 1..Len(resp.search_terms[i]) :
                 resp.search_terms[i][k] \notin Range(UpperLetters)
  /\ (resp.endpoint = "nlp" /\ resp.status = 200 /\ ~resp.has_pagination)
     => ExpectedTokens(resp.query_text) = <<>>
  /\ (resp.endpoint = "nlp" /\ resp.status = 200
      /\ resp.query_text = <<"I", " ", "w", "a", "n", "t", " ", "t", "o", " ", "s", "e", "a",
                             "r", "c", "h", " ", "f", "o", "r", " ", "A", "z", "u", "r", "e">>)
     => resp.search_terms = << <<"a", "z", "u", "r", "e">> >>

(* C5 as stated: as above, and no token occurs twice in the output.         *)
C5_TokensAreDeduplicated ==
  NlpTokens =>
    /\ resp.search_terms = ExpectedTokens(resp.query_text)
    /\ \A i, j \in 1..Len(resp.search_terms) :
         resp.search_terms[i] = resp.search_terms[j] => i = j

\* a phrase with an uppercase piece repeated in another case is answered
C5_Witness ==
  /\ NlpTokens
  /\ Len(resp.search_terms) = 2
  /\ resp.search_terms[1] = resp.search_terms[2]
  /\ \E k \in 1..Len(resp.query_text) : resp.query_text[k] \in Range(UpperLetters)

(* C6: when no token is left after the stop words are removed, the request  *)
(* ends in the 'no valid search terms' answer and the store is not          *)
(* accessed in it: no query is built, counted or fetched, and the answer    *)
(* has that message and no records; with a token left the message differs.  *)
C6_NoTermsNoStoreAccess ==
  (resp.endpoint = "nlp" /\ resp.status # 422)
  => IF ExpectedTokens(resp.query_text) = <<>>
     THEN /\ resp.status = 200
          /\ resp.message = NoTermsMessage
          /\ resp.queries = 0
          /\ ~resp.paginated
          /\ ~resp.has_pagination
          /\ resp.certs = <<>>
     ELSE /\ resp.paginated
          /\ resp.message # NoTermsMessage

\* only stop words were asked for while the table has rows, and a page
\* that paginate would refuse was requested
C6_Witness ==
  /\ resp.endpoint = "nlp"
  /\ resp.message = NoTermsMessage
  /\ resp.query_text # <<>>
  /\ \E k \in 1..Len(resp.query_text) : ~IsSpace(resp.query_text[k])
  /\ store # <<>>
  /\ resp.raw_page = IntArg(0)

(* C7: the free-text search selects a row iff every token occurs, as a      *)
(* literal substring compared without regard to case, in the employee       *)
(* name, the certificate type or the certificate description; this for      *)
(* every token, also one with '%' or '_' in it, and however often a token   *)
(* is repeated.                                                             *)
C7_FreeTextIsLiteralSubstring ==
  (NlpTokens /\ WholeResult)
  => CertSet =
       {r \in Range(store) :
          \A t \in Range(ExpectedTokens(resp.query_text)) :
            \/ Contains(Lower(r.employeename), t)
            \/ Contains(Lower(r.certificatetype), t)
            \/ Contains(Lower(r.certificatedescription), t)}

(* C8: the keyword endpoint selects a row iff the keyword occurs as a       *)
(* substring, compared without regard to case, in the certificate           *)
(* description or in the certificate type; no other field counts.           *)
C8_KeywordIsSubstringOfDescriptionOrType ==
  (resp.endpoint = "keyword" /\ WholeResult)
  => CertSet =
       {r \in Range(store) :
          \/ Contains(Lower(r.certificatedescription), Lower(resp.tkeyword))
          \/ Contains(Lower(r.certificatetype), Lower(resp.tkeyword))}

(* C9: the rows the name+keyword filter selects are the rows the name       *)
(* filter alone selects that the keyword filter alone selects too.          *)
C9_NameAndKeywordIsIntersection ==
  (resp.endpoint = "name_keyword" /\ WholeResult)
  => CertSet = {r \in Table : name_query(r, resp.employeename)}
                 \cap {r \in Table : keyword_query(r, resp.tkeyword)}

(* C10: with T matches and per_page P in 1..300 the page count of an answer *)
(* is ceil(T / P), and it is 0 iff T = 0; with T = 0 and page 1 the answer  *)
(* is no error: total 0, 0 pages, no items, neither previous nor next page. *)
C10_PageCountIsCeiling ==
  LET T == Cardinality(RequestRows)
  IN  /\ ( /\ resp.endpoint \in PagedEndpoints
           /\ resp.status = 200
           /\ resp.has_pagination
           /\ resp.pg_per_page \in 1..MaxPerPage )
         => /\ resp.pagination.total = T
            /\ resp.pagination.per_page = resp.pg_per_page
            /\ resp.pagination.pages = Ceil(T, resp.pg_per_page)
            /\ resp.pagination.pages = 0 <=> T = 0
      /\ ( /\ resp.endpoint \in PagedEndpoints
           /\ resp.paginated
           /\ T = 0
           /\ resp.pg_page = 1
           /\ resp.pg_per_page \in 1..MaxPerPage )
         => /\ resp.status = 200
            /\ resp.has_pagination
            /\ resp.pagination.total = 0
            /\ resp.pagination.pages = 0
            /\ resp.certs = <<>>
            /\ ~resp.pagination.has_prev
            /\ ~resp.pagination.has_next

\* one match listed two to a page: one page, where T \div P is 0
C10_Witness ==
  /\ resp.endpoint = "name"
  /\ resp.status = 200
  /\ resp.pagination.total = 1
  /\ resp.pagination.per_page = 2
  /\ resp.pagination.pages = 1

\* the reference addresses the endpoint, path parameters and per_page of the request
SameTarget(link) ==
  /\ link.endpoint = resp.endpoint
  /\ link.employeename = resp.employeename
  /\ link.tkeyword = resp.tkeyword
  /\ link.tcerttype = resp.tcerttype
  /\ link.query_text = resp.query_text
  /\ link.per_page = resp.pg_per_page

(* C11: in every paginated answer 'prev' is present iff page > 1 and then   *)
(* refers to page - 1, 'next' is present iff page < total_pages and then    *)
(* refers to page + 1, 'first' refers to page 1, 'current' to the requested *)
(* page, 'last' to page total_pages; every reference addresses the          *)
(* request's endpoint, path parameters and per_page; and every reference    *)
(* present addresses a page >= 1, also when total_pages = 0.                *)
C11_NavigationLinks ==
  (resp.status = 200 /\ resp.has_pagination)
  => LET l == resp.links
         present == {x \in {l.current, l.first, l.last, l.prev, l.next} : x.present}
     IN  /\ l.prev.present <=> resp.pg_page > 1
         /\ l.prev.present => l.prev.page = resp.pg_page - 1
         /\ l.next.present <=> resp.pg_page < resp.pagination.pages
         /\ l.next.present => l.next.page = resp.pg_page + 1
         /\ l.first.present /\ l.first.page = 1
         /\ l.current.present /\ l.current.page = resp.pg_page
         /\ l.last.present /\ l.last.page = resp.pagination.pages
         /\ \A x \in present : SameTarget(x)
         /\ \A x \in present : x.page >= 1

(* C11 as amended: as stated, but 'last' addresses page 0 when              *)
(* total_pages = 0; every other reference present addresses a page >= 1.    *)
C11_LinksApartFromPageZero ==
  (resp.status = 200 /\ resp.has_pagination)
  => LET l == resp.links
         present == {x \in {l.current, l.first, l.last, l.prev, l.next} : x.present}
     IN  /\ l.prev.present <=> resp.pg_page > 1
         /\ l.prev.present => l.prev.page = resp.pg_page - 1
         /\ l.next.present <=> resp.pg_page < resp.pagination.pages
         /\ l.next.present => l.next.page = resp.pg_page + 1
         /\ l.first.present /\ l.first.page = 1
         /\ l.current.present /\ l.current.page = resp.pg_page
         /\ l.last.present /\ l.last.page = resp.pagination.pages
         /\ \A x \in present : SameTarget(x)
         /\ \A x \in present : x.page >= 1 \/ (x = l.last /\ resp.pagination.pages = 0)

\* no match for a name and keyword: 'last' is page 0 of the same route
C11_Witness ==
  /\ resp.endpoint = "name_keyword"
  /\ resp.status = 200
  /\ resp.has_pagination
  /\ resp.pagination.pages = 0
  /\ resp.links.last.page = 0
  /\ resp.links.last.employeename = resp.employeename
  /\ store # <<>>

\* the submitted fields of a row
FieldsOf(r) ==
  [employeename |-> r.employeename, certificatetype |-> r.certificatetype,
   certificatedescription |-> r.certificatedescription,
   certificatelink |-> r.certificatelink, expirydate |-> r.expirydate]

C14_MessagesIdentifyTheVariant ==
  (resp.endpoint \in PagedEndpoints /\ resp.status = 200 /\ resp.has_pagination)
  => \A other \in PagedEndpoints \ {resp.endpoint} :
       VariantMessage(other, resp.employeename, resp.tkeyword, resp.query_text)
         # resp.message

(* C15: in a paginated read the reported total and the returned window come *)
(* from one store snapshot, also when the commit of another request falls   *)
(* between the two statements: the items are exactly the positions          *)
(* (page-1)*per_page .. page*per_page-1 of a set of `total` matches, so     *)
(* there are min(per_page, max(0, total - offset)) of them, each a match.   *)
C15_TotalAndWindowFromOneSnapshot ==
  (resp.endpoint = "keyword" /\ resp.status = 200 /\ resp.has_pagination)
  => LET offset == (resp.pg_page - 1) * resp.pg_per_page
         rest == IF resp.pagination.total > offset
                 THEN resp.pagination.total - offset ELSE 0
     IN  /\ Len(resp.certs) = IF rest < resp.pg_per_page THEN rest ELSE resp.pg_per_page
         /\ \A i \in 1..Len(resp.certs) : keyword_query(resp.certs[i], resp.tkeyword)

\* the rows of S by ascending identifier
ByIdentifier(S) ==
  LET ids == Ascending({r.id : r \in S})
  IN  [n \in 1..Len(ids) |-> CHOOSE r \in S : r.id = ids[n]]

(* C16: for a fixed store, filter and per_page the answers are in ascending *)
(* identifier order and the windows of the pages partition the matches:     *)
(* the window of page k is exactly the positions (k-1)*per_page ..          *)
(* k*per_page-1 of the matching records taken by ascending identifier.      *)
C16_WindowsPartitionInIdentifierOrder ==
  (resp.endpoint \in PagedEndpoints /\ resp.status = 200 /\ resp.has_pagination)
  => resp.certs = Window(ByIdentifier(RequestRows),
                         (resp.pg_page - 1) * resp.pg_per_page, resp.pg_per_page)

\* the segments that name a validity bucket
BucketSegments == {seg_valid, seg_invalid, seg_nodate}

\* the endpoint a path /certifications/name/<name>/<segment> is meant for
NameRouteEndpoint(segment) ==
  CASE segment = seg_valid -> "name_valid"
    [] segment = seg_invalid -> "name_invalid"
    [] segment = seg_nodate -> "name_nodate"
    [] OTHER -> "name_keyword"

(* C17: a request to /certifications/name/<name>/<segment> is dispatched to *)
(* exactly one handler; for the segments valid, invalid and nodate it is    *)
(* the validity-bucket handler, and the name+keyword handler never runs     *)
(* with one of these three words as its keyword.                            *)
C17_NameRoutesAreUnambiguous ==
  /\ \A name \in RouteSegments, segment \in RouteSegments :
       LET path == <<seg_certifications, seg_name, name, segment>>
           candidates == Candidates(path)
           matched == Dispatch(path)
       IN  /\ Cardinality(candidates) = 1
           /\ matched \in candidates
           /\ url_map[matched].endpoint = NameRouteEndpoint(segment)
  /\ resp.endpoint = "name_keyword" => resp.tkeyword \notin BucketSegments
  /\ resp.endpoint \in {"name_valid", "name_invalid", "name_nodate"}
     => resp.tkeyword = <<>>

\* a request for /certifications/name/al/nodate, which two rules accept, was
\* answered by the handler of the nodate bucket, with a record in the answer
C17_Witness ==
  /\ resp.endpoint = "name_nodate"
  /\ resp.status = 200
  /\ resp.employeename = <<"a", "l">>
  /\ resp.certs # <<>>
  /\ url_map[Dispatch(<<seg_certifications, seg_name, resp.employeename, seg_nodate>>)].endpoint
       = resp.endpoint
  /\ Cardinality(MatchingRules(<<seg_certifications, seg_name, resp.employeename, seg_nodate>>)) = 2

====
